---- MODULE Spec2Model ----
(***************************************************************************)
(* A model of the Unreal class-metadata pipeline of MCP-Unreal-Server:     *)
(*   get_class_info.py        the Reflector and its batch driver           *)
(*   parse_json.py            the Dataset Aggregator (calculate_references)*)
(*   visualize_hierarchy.py   the Hierarchy Graph Builder and the Renderer *)
(* with the __main__ blocks of the last two, and of its MCP server:        *)
(*   server.py                sessions, tool handlers, lifespan and main   *)
(*                                                                         *)
(* Python values are modelled as follows.  A JSON object whose key order   *)
(* matters (the Dataset, a references / referenced_by count map) is a      *)
(* sequence of <<key, value>> pairs in insertion order.  A ClassRecord is  *)
(* a function from field names to values, so that an absent field is       *)
(* absent from its DOMAIN.  Python's None is the string "None", which is   *)
(* no class name (None is a keyword).                                      *)
(***************************************************************************)
EXTENDS Integers, Sequences, FiniteSets, TLC

VARIABLES
    data,        \* parse_json.py / visualize_hierarchy.py: the loaded Dataset
    calls,       \* number of calculate_references(data) calls made so far
    graph,       \* visualize_hierarchy.py: what build_hierarchy_graph returned
    vpc,         \* visualize_interactive_graph: where the call stands
    artifact,    \* the HTML file at output_path: "absent", "partial", "written"
    events,      \* what visualize_interactive_graph did so far, in order
    escaped,     \* an exception left visualize_interactive_graph
    loaded,      \* the Dataset has been handed to the later stages
    class_list,  \* get_class_info.py __main__: the classes to reflect
    done,        \* get_class_info.py __main__: classes the loop has handled
    all_class_info, \* get_class_info.py __main__: the Dataset being merged
    entry,       \* which script runs as __main__: "aggregator", "visualizer"
    input_file,  \* what the file system holds at the input path
    mpc,         \* __main__ of parse_json.py / visualize_hierarchy.py: position
    unreal_data, \* __main__: what parse_unreal_json returned
    output_json, \* unreal_calculated.json: "absent", "partial", "written"
    main_escaped, \* an exception left __main__
    sessions,    \* server.py: every RemoteExecution object created so far
    unreal_connection,  \* server.py: the global _unreal_connection (0: None)
    remote_execution,   \* McpUnrealServer.remote_execution (0: None)
    node_monitor_task,  \* McpUnrealServer._node_monitor_task
    connected_nodes,    \* McpUnrealServer.connected_nodes: "empty", "nodes"
    handlers,    \* the call_tool handler tasks: tool, position, reply
    loop_owner,  \* the handler the event loop is running (0: none of them)
    spc          \* main(): where the server's life stands

aggVars == <<data, calls>>
vizVars == <<graph, vpc, artifact, events, escaped>>
batchVars == <<class_list, done, all_class_info>>
mainVars == <<entry, input_file, mpc, unreal_data, output_json, main_escaped>>
connVars == <<sessions, unreal_connection>>
instVars == <<remote_execution, node_monitor_task, connected_nodes>>
srvVars == <<connVars, instVars, handlers, loop_owner, spc>>
vars == <<data, calls, graph, vpc, artifact, events, escaped, loaded,
          class_list, done, all_class_info, mainVars, srvVars>>

None == "None"

(***************************************************************************)
(* Bounds of the model.                                                    *)
(***************************************************************************)
MaxProps == 2    \* editor properties in a Dataset, all records together
MaxCalls == 2    \* calls of calculate_references on one Dataset
MaxChain == 4    \* ancestors in a reflected class's chain, object included
MaxRequests == 2 \* tool calls the server receives in one life

(***************************************************************************)
(* Names.  DatasetNames are the classes of the Dataset, ExternalTypes are  *)
(* type names that are no Dataset key (bool, float, ... in real data).     *)
(***************************************************************************)
DatasetNames == {"StructBase", "Vector", "Box"}
DatasetOrder == <<"StructBase", "Vector", "Box">>
ExternalTypes == {"bool"}
TypeNames == DatasetNames \cup ExternalTypes
\* the names the input Datasets use as editor-property type and as parent:
\* Dataset keys and an external type
PropTypeNames == {"StructBase", "Vector"} \cup ExternalTypes
ParentNames == {"StructBase"} \cup ExternalTypes

(***************************************************************************)
(* Python helpers.                                                         *)
(***************************************************************************)
\* bool(x) of a name-or-None value: None and "" are falsy
Truthy(x) == x # None /\ x # ""

\* d.get(k, default) on a record (a dict with string keys)
Get(d, k, default) == IF k \in DOMAIN d THEN d[k] ELSE default

\* d[k] = v on a record: adds the field when it is absent
Put(d, k, v) == (k :> v) @@ d

\* the keys of an insertion-ordered dict
Keys(d) == {d[i][1] : i \in DOMAIN d}

\* position of key k in an insertion-ordered dict holding it
IndexOf(d, k) == CHOOSE i \in DOMAIN d : d[i][1] = k

\* d[k] on an insertion-ordered dict holding k
Item(d, k) == d[IndexOf(d, k)][2]

\* d.get(k, default) on an insertion-ordered dict
DictGet(d, k, default) == IF k \in Keys(d) THEN Item(d, k) ELSE default

\* d[k] = v on an insertion-ordered dict: in place when k is there, else appended
DictSet(d, k, v) ==
    IF k \in Keys(d)
    THEN [d EXCEPT ![IndexOf(d, k)] = <<k, v>>]
    ELSE Append(d, <<k, v>>)

\* faulty variant of Incr: a repeated key is set to 1 instead of counted up
IncrOnce(d, k) == DictSet(d, k, 1)

\* d[k] = d.get(k, 0) + 1
Incr(d, k) == DictSet(d, k, DictGet(d, k, 0) + 1)

(***************************************************************************)
(* parse_json.py: calculate_references                                     *)
(***************************************************************************)
\* faulty variant of Pass1Props: a type is counted whether or not it is a Dataset key
RECURSIVE Pass1PropsAnyType(_, _, _, _)
Pass1PropsAnyType(props, i, refs, all_class_names) ==
    IF i > Len(props) THEN refs
    ELSE Pass1PropsAnyType(props, i + 1, Incr(refs, props[i][2]), all_class_names)

\* the inner loop of pass 1 over editor_properties[i..], accumulating into refs
RECURSIVE Pass1Props(_, _, _, _)
Pass1Props(props, i, refs, all_class_names) ==
    IF i > Len(props) THEN refs
    ELSE LET prop_type == props[i][2]
         IN  Pass1Props(props, i + 1,
                        IF prop_type \in all_class_names
                        THEN Incr(refs, prop_type) ELSE refs,
                        all_class_names)

\* faulty variant of Pass1Reset: references is kept when the record already has one
Pass1ResetKeepsStale(class_info) ==
    Put(Put(class_info, "references", Get(class_info, "references", <<>>)),
        "referenced_by", <<>>)

\* faulty variant of Pass1Reset: the record is replaced by the two fresh maps
Pass1ResetWholeRecord(class_info) ==
    [references |-> <<>>, referenced_by |-> <<>>]

\* the reset at the head of pass 1's loop body
Pass1Reset(class_info) ==
    Put(Put(class_info, "references", <<>>), "referenced_by", <<>>)

\* faulty variant of Pass1Record: the parent is counted without the Dataset-key test
Pass1RecordAnyParent(class_info, all_class_names) ==
    LET reset == Pass1Reset(class_info)
        parent == Get(reset, "parent", None)
        withParent == IF Truthy(parent)
                      THEN Incr(reset["references"], parent)
                      ELSE reset["references"]
    IN  [reset EXCEPT !["references"] =
            Pass1Props(Get(reset, "editor_properties", <<>>), 1,
                       withParent, all_class_names)]

\* the body of pass 1 for one record
Pass1Record(class_info, all_class_names) ==
    LET reset == Pass1Reset(class_info)
        parent == Get(reset, "parent", None)
        withParent == IF Truthy(parent) /\ parent \in all_class_names
                      THEN Incr(reset["references"], parent)
                      ELSE reset["references"]
    IN  [reset EXCEPT !["references"] =
            Pass1Props(Get(reset, "editor_properties", <<>>), 1,
                       withParent, all_class_names)]

Pass1(d) ==
    [i \in DOMAIN d |-> <<d[i][1], Pass1Record(d[i][2], Keys(d))>>]

\* faulty variant of Pass2Incr: the count lands in the referencing class's own map
Pass2IncrSwapped(d, prop_type, referencing_class_name) ==
    IF prop_type \in Keys(d)
    THEN LET source == Item(d, referencing_class_name)
         IN  DictSet(d, referencing_class_name,
                 [source EXCEPT !["referenced_by"] =
                     Incr(source["referenced_by"], prop_type)])
    ELSE d

\* the body of pass 2's inner loop: one (referencing class, prop_type) pair
Pass2Incr(d, prop_type, referencing_class_name) ==
    IF prop_type \in Keys(d)
    THEN LET target == Item(d, prop_type)
         IN  DictSet(d, prop_type,
                 [target EXCEPT !["referenced_by"] =
                     Incr(target["referenced_by"], referencing_class_name)])
    ELSE d

\* pass 2 from record i, property j on
RECURSIVE Pass2(_, _, _)
Pass2(d, i, j) ==
    IF i > Len(d) THEN d
    ELSE LET props == Get(d[i][2], "editor_properties", <<>>)
         IN  IF j > Len(props) THEN Pass2(d, i + 1, 1)
             ELSE Pass2(Pass2Incr(d, props[j][2], d[i][1]), i, j + 1)

calculate_references(d) ==
    IF d = <<>> THEN d ELSE Pass2(Pass1(d), 1, 1)

(***************************************************************************)
(* The Datasets the Aggregator is run on: every record's parent is None    *)
(* or one of ParentNames, its editor properties have PropTypeNames as      *)
(* types (MaxProps properties in all), and references / referenced_by hold *)
(* what an earlier stage left.                                             *)
(***************************************************************************)
PropNames == <<"min", "max", "extent", "origin">>

TypeSeqs == UNION {[1..n -> PropTypeNames] : n \in 0..MaxProps}

RECURSIVE TotalLen(_, _)
TotalLen(f, S) ==
    IF S = {} THEN 0
    ELSE LET c == CHOOSE c \in S : TRUE IN Len(f[c]) + TotalLen(f, S \ {c})

PropAssignments ==
    {f \in [DatasetNames -> TypeSeqs] : TotalLen(f, DatasetNames) <= MaxProps}

ParentAssignments == [DatasetNames -> ParentNames \cup {None}]

EditorProps(ts) == [i \in DOMAIN ts |-> <<PropNames[i], ts[i]>>]

\* what a Reflector run or an earlier Aggregator run may have left behind
StaleReferences == <<<<"bool", 1>>, <<"Vector", 3>>>>
StaleReferencedBy == <<<<"Box", 1>>, <<"Actor", 2>>>>

\* "sparse": as the Reflector emits it (empty fields dropped);
\* "full": every field present
InputRecord(name, parent, ts, style) ==
    LET base == [name |-> name, generation |-> 0, children |-> <<>>]
        p == IF style = "full" \/ Truthy(parent)
             THEN Put(base, "parent", parent) ELSE base
        e == IF style = "full" \/ ts # <<>>
             THEN Put(p, "editor_properties", EditorProps(ts)) ELSE p
    IN  IF style = "full"
        THEN Put(Put(e, "references", StaleReferences),
                 "referenced_by", StaleReferencedBy)
        ELSE Put(Put(e, "references", StaleReferences), "referenced_by", <<>>)

InputDataset(parents, props, style) ==
    [i \in DOMAIN DatasetOrder |->
        <<DatasetOrder[i],
          InputRecord(DatasetOrder[i], parents[DatasetOrder[i]],
                      props[DatasetOrder[i]], style)>>]

InputDatasets ==
    {<<>>} \cup
    {InputDataset(parents, props, style) :
        parents \in ParentAssignments, props \in PropAssignments,
        style \in {"sparse", "full"}}

(***************************************************************************)
(* Aggregator specification: calculate_references applied, up to MaxCalls  *)
(* times, to any input Dataset.                                            *)
(***************************************************************************)
\* the renderer has not been called
VizIdle ==
    /\ graph = [kind |-> "unset"]
    /\ vpc = "idle"
    /\ artifact = "absent"
    /\ events = <<>>
    /\ escaped = FALSE

\* no Reflector batch is part of the run
NoBatch ==
    /\ loaded = TRUE
    /\ class_list = <<>>
    /\ done = 0
    /\ all_class_info = <<>>

\* no script of unreal_class_visualization runs as __main__
NoMain ==
    /\ entry = "none"
    /\ input_file = [kind |-> "unused"]
    /\ mpc = "exit"
    /\ unreal_data = [kind |-> "unset"]
    /\ output_json = "absent"
    /\ main_escaped = FALSE

\* the handler tasks of the server, one per tool call it receives
Handlers == 1 .. MaxRequests

\* a handler slot no tool call has used yet
NoRequest ==
    [tool |-> "none", has_code |-> FALSE, pc |-> "unused", reply |-> "none",
     success |-> FALSE, opened |-> FALSE, closed |-> FALSE]

\* the MCP server is not run
NoServer ==
    /\ sessions = <<>>
    /\ unreal_connection = 0
    /\ remote_execution = 0
    /\ node_monitor_task = "None"
    /\ connected_nodes = "empty"
    /\ handlers = [h \in Handlers |-> NoRequest]
    /\ loop_owner = 0
    /\ spc = "off"

InitAgg ==
    /\ data \in InputDatasets
    /\ calls = 0
    /\ VizIdle
    /\ NoBatch
    /\ NoMain
    /\ NoServer

CalculateReferences ==
    /\ loaded
    /\ calls < MaxCalls
    /\ data' = calculate_references(data)
    /\ calls' = calls + 1
    /\ UNCHANGED <<vizVars, loaded, batchVars, mainVars, srvVars>>

NextAgg == CalculateReferences

SpecAgg == InitAgg /\ [][NextAgg]_vars

(***************************************************************************)
(* What the Aggregator claims speak of, read off the input fields.         *)
(***************************************************************************)
\* every name that can occur as a key of a count map
AllNames == TypeNames \cup Keys(StaleReferences) \cup Keys(StaleReferencedBy)

\* the record of Dataset key A
RecordOf(d, A) == Item(d, A)

\* number of pairs of A.editor_properties whose type is T
PropOccurrences(d, A, T) ==
    LET props == Get(RecordOf(d, A), "editor_properties", <<>>)
    IN  Cardinality({i \in DOMAIN props : props[i][2] = T})

\* 1 when A.parent is T and T is a Dataset key
ParentLink(d, A, T) ==
    IF Get(RecordOf(d, A), "parent", None) = T /\ T \in Keys(d) THEN 1 ELSE 0

References(d, A) == Get(RecordOf(d, A), "references", <<>>)
ReferencedBy(d, A) == Get(RecordOf(d, A), "referenced_by", <<>>)

\* a count map holds every key once and no zero count
WellFormedCounts(m) ==
    /\ Cardinality(Keys(m)) = Len(m)
    /\ \A i \in DOMAIN m : m[i][2] > 0

\* the references / referenced_by maps of a Dataset, in order
RefMaps(d) ==
    [i \in DOMAIN d |->
        <<d[i][1], Get(d[i][2], "references", <<>>),
          Get(d[i][2], "referenced_by", <<>>)>>]

RECURSIVE SumOver(_, _)
SumOver(f, S) ==
    IF S = {} THEN 0
    ELSE LET x == CHOOSE x \in S : TRUE IN f[x] + SumOver(f, S \ {x})

\* C1: a second run of calculate_references on a Dataset leaves every
\* record's references and referenced_by maps as the first run left them.
C1_Idempotent ==
    [][calls >= 1 => RefMaps(data') = RefMaps(data)]_vars

C1_Witness ==
    /\ calls = 2
    /\ \E A \in Keys(data) :
          References(data, A) # <<>> /\ ReferencedBy(data, A) # <<>>

\* the count the parent and editor_properties fields give for references[A][T]
C2_Expected(d, A, T) ==
    ParentLink(d, A, T) + (IF T \in Keys(d) THEN PropOccurrences(d, A, T) ELSE 0)

\* C2: after calculate_references, references[A][T] is the parent link
\* (1 when A.parent is T and T is a Dataset key) plus the number of editor
\* properties of A of type T when T is a Dataset key; T is absent when that
\* is 0; nothing of the earlier references content survives.
C2_ReferencesExact ==
    calls >= 1 =>
        \A A \in Keys(data) :
            /\ WellFormedCounts(References(data, A))
            /\ Keys(References(data, A)) \subseteq AllNames
            /\ \A T \in AllNames :
                  /\ DictGet(References(data, A), T, 0) = C2_Expected(data, A, T)
                  /\ C2_Expected(data, A, T) = 0 => T \notin Keys(References(data, A))

C2_Witness ==
    /\ calls >= 1
    /\ data # <<>>
    /\ Get(RecordOf(data, "Box"), "parent", None) = "StructBase"
    /\ References(data, "Box") = <<<<"StructBase", 1>>, <<"Vector", 2>>>>

\* C3: after calculate_references, referenced_by[T][A] is the number of
\* editor properties of A of type T (absent when 0); a parent link adds
\* nothing, so a class referenced only as a parent has an empty map.
C3_ReferencedByExact ==
    calls >= 1 =>
        \A T \in Keys(data) :
            /\ WellFormedCounts(ReferencedBy(data, T))
            /\ Keys(ReferencedBy(data, T)) \subseteq Keys(data)
            /\ \A A \in Keys(data) :
                  DictGet(ReferencedBy(data, T), A, 0) = PropOccurrences(data, A, T)

C3_Witness ==
    /\ calls >= 1
    /\ data # <<>>
    /\ ReferencedBy(data, "Vector") = <<<<"Box", 2>>>>
    /\ ParentLink(data, "Vector", "StructBase") = 1
    /\ ParentLink(data, "Box", "StructBase") = 1
    /\ ReferencedBy(data, "StructBase") = <<>>

OccurrenceSum(d, T) ==
    SumOver([A \in Keys(d) |-> PropOccurrences(d, A, T)], Keys(d))

ReferencedBySum(d, T) ==
    IF T \in Keys(d)
    THEN SumOver([A \in Keys(d) |-> DictGet(ReferencedBy(d, T), A, 0)], Keys(d))
    ELSE 0

ReferencesPropertyPartSum(d, T) ==
    SumOver([A \in Keys(d) |->
                DictGet(References(d, A), T, 0) - ParentLink(d, A, T)], Keys(d))

Conserved(d, T) ==
    /\ OccurrenceSum(d, T) = ReferencedBySum(d, T)
    /\ OccurrenceSum(d, T) = ReferencesPropertyPartSum(d, T)

\* C4 as stated: for every type T, the editor-property occurrences of T
\* summed over the classes equal the referenced_by[T] counts summed over the
\* classes, and equal the editor-property part of references[A][T] summed.
C4_ConservationEveryType ==
    calls >= 1 => \A T \in TypeNames : Conserved(data, T)

\* C4 as amended: the conservation law for every type T that is a Dataset
\* key; occurrences of a type outside the Dataset are counted nowhere.
C4_ConservationDatasetKeys ==
    calls >= 1 =>
        /\ \A T \in Keys(data) : Conserved(data, T)
        /\ \A T \in TypeNames \ Keys(data) :
              ReferencedBySum(data, T) = 0 /\ ReferencesPropertyPartSum(data, T) = 0

C4_Witness ==
    /\ calls >= 1
    /\ data # <<>>
    /\ OccurrenceSum(data, "Vector") = 2
    /\ OccurrenceSum(data, "bool") = 0
    /\ ReferencedBySum(data, "Vector") = 2
    /\ \E A \in Keys(data) : ParentLink(data, A, "StructBase") = 1

(***************************************************************************)
(* visualize_hierarchy.py: build_hierarchy_graph                           *)
(***************************************************************************)
\* nx.DiGraph()
EmptyDiGraph == [kind |-> "DiGraph", nodes |-> {}, edges |-> {}]

\* G.add_node(n)
add_node(G, n) == [G EXCEPT !.nodes = @ \cup {n}]

\* G.add_edge(u, v): adds the endpoints as nodes when they are missing
add_edge(G, u, v) ==
    [G EXCEPT !.nodes = @ \cup {u, v}, !.edges = @ \cup {<<u, v>>}]

\* the loop adding every class as a node
RECURSIVE AddNodes(_, _)
AddNodes(G, names) ==
    IF names = {} THEN G
    ELSE LET n == CHOOSE n \in names : TRUE
         IN  AddNodes(add_node(G, n), names \ {n})

\* faulty variant of AddParentEdge: an external parent is linked as well
AddParentEdgeExternal(G, class_name, class_info, all_class_names) ==
    LET parent == Get(class_info, "parent", None)
    IN  IF Truthy(parent) THEN add_edge(G, parent, class_name) ELSE G

\* the body of the edge loop for one record
AddParentEdge(G, class_name, class_info, all_class_names) ==
    LET parent == Get(class_info, "parent", None)
    IN  IF Truthy(parent) /\ parent \in all_class_names
        THEN add_edge(G, parent, class_name)
        ELSE G

\* the edge loop from record i on
RECURSIVE AddEdges(_, _, _)
AddEdges(G, d, i) ==
    IF i > Len(d) THEN G
    ELSE AddEdges(AddParentEdge(G, d[i][1], d[i][2], Keys(d)), d, i + 1)

build_hierarchy_graph(d) ==
    IF d = <<>> THEN [kind |-> "None"]
    ELSE AddEdges(AddNodes(EmptyDiGraph, Keys(d)), d, 1)

(***************************************************************************)
(* The Datasets the visualizer is run on: the empty one, and Datasets over *)
(* some of the class names whose parents are None or any type name.        *)
(***************************************************************************)
KeyOrders ==
    { <<"StructBase", "Vector", "Box">>, <<"Box", "Vector", "StructBase">>,
      <<"Vector", "Box">>, <<"Box">> }

VizDataset(order, parents, style) ==
    [i \in DOMAIN order |->
        <<order[i], InputRecord(order[i], parents[order[i]], <<>>, style)>>]

VizDatasets ==
    {<<>>} \cup
    {VizDataset(order, parents, style) :
        order \in KeyOrders,
        parents \in [DatasetNames -> TypeNames \cup {None}],
        style \in {"sparse", "full"}}

(***************************************************************************)
(* visualize_hierarchy.py: visualize_interactive_graph, step by step.      *)
(* The save and the open are calls into pyvis and webbrowser: either may   *)
(* raise.  A failed save may leave nothing or a partial file.              *)
(***************************************************************************)
\* graph.number_of_nodes()
number_of_nodes(G) == IF G.kind = "DiGraph" THEN Cardinality(G.nodes) ELSE 0

\* the guard at the head: "Graph is empty, nothing to visualize."
VizEnter ==
    /\ vpc = "idle"
    /\ graph.kind # "unset"
    /\ IF graph.kind = "None" \/ number_of_nodes(graph) = 0
       THEN /\ vpc' = "returned"
            /\ events' = Append(events, "nothing")
       ELSE /\ vpc' = "save"
            /\ events' = Append(events, "from_nx")
    /\ UNCHANGED <<data, calls, graph, artifact, escaped, loaded, batchVars, mainVars, srvVars>>

\* net.save_graph(str(output_path)) returns
VizSave ==
    /\ vpc = "save"
    /\ artifact' = "written"
    /\ events' = Append(events, "saved")
    /\ vpc' = "open"
    /\ UNCHANGED <<data, calls, graph, escaped, loaded, batchVars, mainVars, srvVars>>

\* net.save_graph raises: the outer handler reports it and the call returns
VizSaveFails ==
    /\ vpc = "save"
    /\ artifact' \in {"absent", "partial"}
    /\ events' = Append(events, "save_failed")
    /\ vpc' = "returned"
    /\ UNCHANGED <<data, calls, graph, escaped, loaded, batchVars, mainVars, srvVars>>

\* webbrowser.open(output_path.as_uri()) returns
VizOpen ==
    /\ vpc = "open"
    /\ events' = Append(events, "open_returned")
    /\ vpc' = "returned"
    /\ UNCHANGED <<data, calls, graph, artifact, escaped, loaded, batchVars, mainVars, srvVars>>

\* faulty variant of VizOpenFails: no inner handler, the failure reaches the caller
VizOpenFailsUncaught ==
    /\ vpc = "open"
    /\ events' = Append(events, "open_failed")
    /\ vpc' = "returned"
    /\ escaped' = TRUE
    /\ UNCHANGED <<data, calls, graph, artifact, loaded, batchVars, mainVars, srvVars>>

\* as_uri or webbrowser.open raises: the inner handler reports it
VizOpenFails ==
    /\ vpc = "open"
    /\ events' = Append(events, "open_failed")
    /\ vpc' = "returned"
    /\ UNCHANGED <<data, calls, graph, artifact, escaped, loaded, batchVars, mainVars, srvVars>>

(***************************************************************************)
(* Visualizer specification: build_hierarchy_graph applied to any input    *)
(* Dataset, then visualize_interactive_graph applied to the result.        *)
(***************************************************************************)
InitViz ==
    /\ data \in VizDatasets
    /\ calls = 0
    /\ VizIdle
    /\ NoBatch
    /\ NoMain
    /\ NoServer

BuildHierarchyGraph ==
    /\ loaded
    /\ graph.kind = "unset"
    /\ graph' = build_hierarchy_graph(data)
    /\ UNCHANGED <<data, calls, vpc, artifact, events, escaped, loaded, batchVars, mainVars, srvVars>>

NextViz ==
    \/ BuildHierarchyGraph
    \/ VizEnter
    \/ VizSave
    \/ VizSaveFails
    \/ VizOpen
    \/ VizOpenFails

SpecViz == InitViz /\ [][NextViz]_vars

(***************************************************************************)
(* What the graph claims speak of.                                         *)
(***************************************************************************)
\* { parent -> C : C a Dataset key whose parent is a Dataset key }
ParentEdges(d) ==
    {<<Get(RecordOf(d, C), "parent", None), C>> :
        C \in {K \in Keys(d) : Get(RecordOf(d, K), "parent", None) \in Keys(d)}}

GraphShape(d, G) ==
    /\ G.kind = "DiGraph"
    /\ G.nodes = Keys(d)
    /\ G.edges = ParentEdges(d)

\* C6 as stated: for every Dataset D, build_hierarchy_graph(D) is a directed
\* graph whose nodes are the keys of D and whose edges are parent -> C for
\* every key C whose parent is a key.
C6_GraphShapeEveryDataset ==
    graph.kind # "unset" => GraphShape(data, graph)

\* C6 as amended: the same for every non-empty Dataset; for the empty
\* Dataset build_hierarchy_graph returns None, no graph.
C6_GraphShapeNonEmpty ==
    graph.kind # "unset" =>
        IF data = <<>> THEN graph.kind = "None" ELSE GraphShape(data, graph)

C6_Witness ==
    /\ graph.kind = "DiGraph"
    /\ Keys(data) = DatasetNames
    /\ graph.edges = {<<"StructBase", "Vector">>, <<"Vector", "Box">>}
    /\ ~ \E e \in graph.edges : e[2] = "StructBase"

\* position of the first occurrence of event e, 0 when there is none
FirstAt(e) ==
    IF \E i \in DOMAIN events : events[i] = e
    THEN CHOOSE i \in DOMAIN events :
            events[i] = e /\ \A j \in 1..(i - 1) : events[j] # e
    ELSE 0

OpenAttempted == \E i \in DOMAIN events : events[i] \in {"open_returned", "open_failed"}

\* C10: on a non-empty graph the open attempt comes only after the save step
\* wrote the artifact; a failed open leaves the artifact written and reaches
\* no caller; after a failed save there is no open attempt.
C10_RendererOrdering ==
    /\ OpenAttempted =>
          /\ FirstAt("saved") > 0
          /\ \A i \in DOMAIN events :
                events[i] \in {"open_returned", "open_failed"} => FirstAt("saved") < i
          /\ artifact = "written"
    /\ FirstAt("save_failed") > 0 => ~ OpenAttempted /\ vpc = "returned"
    /\ ~ escaped

C10_Witness ==
    /\ number_of_nodes(graph) > 0
    /\ events = <<"from_nx", "saved", "open_failed">>
    /\ artifact = "written"
    /\ vpc = "returned"

(***************************************************************************)
(* get_class_info.py: the Reflector.                                       *)
(*                                                                         *)
(* A class object is a record of what the inspect module answers for it:   *)
(*   name     cls.__name__                                                 *)
(*   mro      the names of inspect.getmro(cls), the class itself first     *)
(*   doc      inspect.getdoc(cls): no field "lines" when there is no       *)
(*            Editor Properties section, else the section's lines, each a  *)
(*            bullet <<name, type>> or <<>> for a line that matches nothing*)
(*   attrs    inspect.classify_class_attrs(cls), each with its name, kind, *)
(*            defining class, docstring types and annotations              *)
(*   raises   "no", or the step whose exception reaches the handler        *)
(* A Python index i into mro is position i + 1 of the sequence.            *)
(***************************************************************************)
Py(seq, i) == seq[i + 1]

\* get_type_from_docstring: "(Type):" first, then "[Read-Write] (Type)"
get_type_from_docstring(doc) ==
    IF Truthy(Get(doc, "typed", None)) THEN doc["typed"]
    ELSE IF Truthy(Get(doc, "read_write", None)) THEN doc["read_write"]
    ELSE "Unknown"

\* the loop of get_editor_properties_from_docstring over the section's lines
RECURSIVE EditorPropLines(_, _, _)
EditorPropLines(lines, i, props) ==
    IF i > Len(lines) THEN props
    ELSE LET line == lines[i]
         IN  EditorPropLines(lines, i + 1,
                 IF line # <<>> /\ ~ \E j \in DOMAIN props : props[j][1] = line[1]
                 THEN Append(props, line) ELSE props)

get_editor_properties_from_docstring(doc) ==
    IF "lines" \in DOMAIN doc THEN EditorPropLines(doc["lines"], 1, <<>>) ELSE <<>>

\* faulty variant of ScanGrandParent: the scan runs from the nearest ancestor up
ScanGrandParentNearest(mro, i) ==
    LET found == {k \in 2..i : Py(mro, k) # "object"}
    IN  IF found = {} THEN -1
        ELSE CHOOSE k \in found : \A m \in found : k <= m

\* the scan for grand_parent_index, from Python index i down to 2; -1 if none
RECURSIVE ScanGrandParent(_, _)
ScanGrandParent(mro, i) ==
    IF i <= 1 THEN -1
    ELSE IF Py(mro, i) \notin {"object", "_WrapperBase"} THEN i
    ELSE IF Py(mro, i) = "_WrapperBase" /\ i > 1 THEN i
    ELSE ScanGrandParent(mro, i - 1)

\* info["grand_parent"] as lines 66-88 leave it
grand_parent(mro) ==
    IF Len(mro) > 2
    THEN LET grand_parent_index == ScanGrandParent(mro, Len(mro) - 1)
         IN  IF grand_parent_index # -1 /\ grand_parent_index < Len(mro) - 1
             THEN LET actual_grand_parent_index ==
                          IF Py(mro, grand_parent_index) = Py(mro, 1)
                          THEN IF /\ grand_parent_index + 1 < Len(mro)
                                  /\ Py(mro, grand_parent_index + 1) # "object"
                               THEN grand_parent_index + 1
                               ELSE IF grand_parent_index > 1 THEN 2
                               ELSE grand_parent_index
                          ELSE grand_parent_index
                  IN  IF actual_grand_parent_index < Len(mro)
                      THEN Py(mro, actual_grand_parent_index)
                      ELSE None
             ELSE None
    ELSE None

\* attr.name.startswith('_')
PrivateNames == {"__init__", "__repr__", "_wrapper_meta_data"}

\* the references a method's signature adds: one per annotation with a
\* __name__; nothing when inspect.signature raises ValueError or TypeError
RECURSIVE CountAll(_, _, _)
CountAll(names, i, counts) ==
    IF i > Len(names) THEN counts
    ELSE CountAll(names, i + 1, Incr(counts, names[i]))

\* faulty variant of ClassifyAttr: the defining_class test is missing, so
\* members an ancestor declares are listed too
ClassifyAttrInherited(st, attr, cls) ==
    LET info == st[1]
        references_count == st[2]
        field == CASE attr.kind = "property" -> "properties"
                   [] attr.kind = "class method" -> "class_methods"
                   [] attr.kind = "static method" -> "static_methods"
                   [] attr.kind = "method" -> "methods"
                   [] OTHER -> "none"
    IN  IF attr.name \in PrivateNames /\ attr.name # "__init__" THEN st
        ELSE IF field = "none" THEN st
        ELSE << [info EXCEPT ![field] = Append(@, attr.name)], references_count >>

\* the body of the member loop for one attr, on <<info, references_count>>
ClassifyAttr(st, attr, cls) ==
    LET info == st[1]
        references_count == st[2]
    IN  IF attr.defining_class # cls.name THEN st
        ELSE IF attr.name \in PrivateNames /\ attr.name # "__init__" THEN st
        ELSE IF attr.kind = "property"
        THEN LET member_type_str == get_type_from_docstring(attr.doc)
             IN  << [info EXCEPT !["properties"] = Append(@, attr.name)],
                    IF member_type_str # "Unknown"
                    THEN Incr(references_count, member_type_str)
                    ELSE references_count >>
        ELSE IF attr.kind = "class method"
        THEN << [info EXCEPT !["class_methods"] = Append(@, attr.name)],
                references_count >>
        ELSE IF attr.kind = "static method"
        THEN << [info EXCEPT !["static_methods"] = Append(@, attr.name)],
                references_count >>
        ELSE IF attr.kind = "method"
        THEN << [info EXCEPT !["methods"] = Append(@, attr.name)],
                IF attr.signature_raises THEN references_count
                ELSE CountAll(attr.annotations, 1, references_count) >>
        ELSE st

RECURSIVE ClassifyAttrs(_, _, _, _)
ClassifyAttrs(st, attrs, i, cls) ==
    IF i > Len(attrs) THEN st
    ELSE ClassifyAttrs(ClassifyAttr(st, attrs[i], cls), attrs, i + 1, cls)

\* the fields line 163 keeps whatever they hold
AlwaysKept == {"name", "generation", "children", "referenced_by"}

\* bool(v) of a field value
FieldTruthy(k, v) ==
    IF k \in {"parent", "grand_parent", "name"} THEN Truthy(v)
    ELSE IF k = "generation" THEN v # 0
    ELSE v # <<>>

\* line 163: the fields that are truthy or always kept
DropEmpty(info) ==
    [k \in {f \in DOMAIN info : FieldTruthy(f, info[f]) \/ f \in AlwaysKept}
        |-> info[k]]

\* the record the try block builds (lines 45-163)
InspectedInfo(cls) ==
    LET mro == cls.mro
        info0 == [children |-> <<>>, class_methods |-> <<>>,
                  editor_properties |-> get_editor_properties_from_docstring(cls.doc),
                  generation |-> 0,
                  grand_parent |-> grand_parent(mro),
                  methods |-> <<>>, name |-> cls.name,
                  parent |-> IF Len(mro) > 1 THEN Py(mro, 1) ELSE None,
                  parents |-> Tail(mro),
                  properties |-> <<>>, referenced_by |-> <<>>,
                  references |-> <<>>, static_methods |-> <<>>]
        st == ClassifyAttrs(<<info0, <<>>>>, cls.attrs, 1, cls)
        references_count == IF Truthy(st[1]["parent"])
                            THEN Incr(st[2], st[1]["parent"]) ELSE st[2]
    IN  DropEmpty([st[1] EXCEPT !["references"] = references_count])

\* the record the handler returns (lines 165-168)
ErrorInfo(cls) == [name |-> cls.name, error |-> cls.raises]

\* inspect_class_to_json followed by json.loads: the strings, numbers,
\* lists and string-keyed objects of a record come back as they went in
inspect_class_to_json(cls) ==
    IF cls.raises # "no" THEN ErrorInfo(cls) ELSE InspectedInfo(cls)

(***************************************************************************)
(* The classes the Reflector is run on.                                    *)
(***************************************************************************)
NoDoc == [none |-> TRUE]

Attr(name, kind, owner, doc, annotations, signature_raises) ==
    [name |-> name, kind |-> kind, defining_class |-> owner, doc |-> doc,
     annotations |-> annotations, signature_raises |-> signature_raises]

\* the classes of the reflected module, by name
ModuleClass(name) ==
    IF name = "_WrapperBase"
    THEN [name |-> name, mro |-> <<"_WrapperBase", "object">>, doc |-> NoDoc,
          attrs |-> <<>>]
    ELSE IF name = "Array"
    THEN [name |-> name, mro |-> <<"Array", "_WrapperBase", "object">>,
          doc |-> NoDoc, attrs |-> <<>>]
    ELSE IF name = "StructBase"
    THEN [name |-> name, mro |-> <<"StructBase", "_WrapperBase", "object">>,
          doc |-> NoDoc,
          attrs |-> << Attr("__init__", "method", "StructBase", NoDoc, <<>>, TRUE),
                       Attr("copy", "method", "StructBase", NoDoc, <<"StructBase">>, FALSE),
                       Attr("_wrapper_meta_data", "data", "_WrapperBase", NoDoc, <<>>, FALSE) >>]
    ELSE IF name = "Vector"
    THEN [name |-> name,
          mro |-> <<"Vector", "StructBase", "_WrapperBase", "object">>,
          doc |-> [lines |-> << <<"x", "float">>, <<>>, <<"y", "float">> >>],
          attrs |-> << Attr("x", "property", "Vector", [typed |-> "float"], <<>>, FALSE),
                       Attr("ZERO", "data", "Vector", NoDoc, <<>>, FALSE),
                       Attr("dot", "method", "Vector", NoDoc, <<"Vector", "float">>, FALSE),
                       Attr("copy", "method", "StructBase", NoDoc, <<"StructBase">>, FALSE) >>]
    ELSE [name |-> name,
          mro |-> <<"Box", "StructBase", "_WrapperBase", "object">>,
          doc |-> [lines |-> << <<"min", "Vector">>, <<"max", "Vector">>,
                                <<"min", "bool">> >>],
          attrs |-> << Attr("min", "property", "Box", [read_write |-> "Vector"], <<>>, FALSE),
                       Attr("is_valid", "property", "Box", [typed |-> "bool"], <<>>, FALSE),
                       Attr("build", "class method", "Box", NoDoc, <<"Box">>, FALSE),
                       Attr("__repr__", "method", "Box", NoDoc, <<>>, FALSE),
                       Attr("unit", "static method", "Box", NoDoc, <<>>, FALSE) >>]

\* inspect.getmembers sorts the members by name
ModuleOrder == <<"Array", "Box", "StructBase", "Vector", "_WrapperBase">>

IsMember(S, n) == n \in S

\* get_module_classes: the (name, class) pairs of the members S, sorted
get_module_classes(S, raising) ==
    LET names == SelectSeq(ModuleOrder, LAMBDA n : IsMember(S, n))
    IN  [i \in DOMAIN names |->
            <<names[i],
              ModuleClass(names[i]) @@
              [raises |-> IF names[i] \in raising THEN "getdoc failed" ELSE "no"]>>]

\* line 196: the first member is left out
ModuleClassLists ==
    {LET members == get_module_classes(S, raising)
     IN  IF members = <<>> THEN <<>> ELSE Tail(members) :
        S \in SUBSET {ModuleOrder[i] : i \in DOMAIN ModuleOrder},
        raising \in SUBSET {"Box", "StructBase", "Vector"}}

\* ancestor chains: distinct names, the last one object
AncestorNames == {"Parent", "Mid", "Base", "_WrapperBase"}

RECURSIVE DistinctSeqs(_, _)
DistinctSeqs(S, n) ==
    IF n = 0 THEN {<<>>}
    ELSE LET shorter == DistinctSeqs(S, n - 1)
         IN  shorter \cup
             {Append(q, x) : q \in {r \in shorter : Len(r) = n - 1}, x \in S}

AncestorChains ==
    {Append(q, "object") :
        q \in {r \in DistinctSeqs(AncestorNames, MaxChain - 1) :
                  Cardinality({r[i] : i \in DOMAIN r}) = Len(r)}}

\* one class "Thing" with any ancestor chain, and object itself
ChainClassLists ==
    {<< <<"Thing", [name |-> "Thing", mro |-> <<"Thing">> \o chain, doc |-> NoDoc,
                    attrs |-> <<>>, raises |-> r]>> >> :
        chain \in AncestorChains, r \in {"no", "getmro failed"}}
    \cup
    {<< <<"object", [name |-> "object", mro |-> <<"object">>, doc |-> NoDoc,
                     attrs |-> <<>>, raises |-> "no"]>> >>}

(***************************************************************************)
(* get_class_info.py __main__: the batch driver, one class per step, and   *)
(* the hand-over of the printed Dataset to the later stages.               *)
(***************************************************************************)
\* faulty variant of ReflectNext: a class that raises ends the loop with no entry
ReflectNextAborts ==
    /\ ~ loaded
    /\ done < Len(class_list)
    /\ LET name == class_list[done + 1][1]
           cls_obj == class_list[done + 1][2]
       IN  IF cls_obj.raises # "no"
           THEN /\ all_class_info' = all_class_info
                /\ done' = Len(class_list)
           ELSE /\ all_class_info' =
                      DictSet(all_class_info, name, inspect_class_to_json(cls_obj))
                /\ done' = done + 1
    /\ UNCHANGED <<aggVars, vizVars, loaded, class_list, mainVars, srvVars>>

\* the body of the loop at lines 205-215
ReflectNext ==
    /\ ~ loaded
    /\ done < Len(class_list)
    /\ LET name == class_list[done + 1][1]
           cls_obj == class_list[done + 1][2]
       IN  all_class_info' =
               DictSet(all_class_info, name, inspect_class_to_json(cls_obj))
    /\ done' = done + 1
    /\ UNCHANGED <<aggVars, vizVars, loaded, class_list, mainVars, srvVars>>

\* line 217: the merged Dataset is printed, and read by the later stages
PrintDataset ==
    /\ ~ loaded
    /\ class_list # <<>>
    /\ done = Len(class_list)
    /\ data' = all_class_info
    /\ loaded' = TRUE
    /\ UNCHANGED <<calls, vizVars, batchVars, mainVars, srvVars>>

InitPipeline ==
    /\ class_list \in ModuleClassLists \cup ChainClassLists
    /\ done = 0
    /\ all_class_info = <<>>
    /\ loaded = FALSE
    /\ data = <<>>
    /\ calls = 0
    /\ VizIdle
    /\ NoMain
    /\ NoServer

NextPipeline ==
    \/ ReflectNext
    \/ PrintDataset
    \/ CalculateReferences
    \/ BuildHierarchyGraph

SpecPipeline == InitPipeline /\ [][NextPipeline]_vars

(***************************************************************************)
(* What the Reflector and pipeline claims speak of.                        *)
(***************************************************************************)
\* the classes the batch loop has handled, as positions of class_list
Handled == 1..done

ClassAt(i) == class_list[i][2]
RecordAt(i) == Item(all_class_info, class_list[i][1])

\* the ancestor chain of a class, nearest first, the class itself excluded
ChainOf(cls) == Tail(cls.mro)

Marker == "_WrapperBase"

MarkerPositions(chain) == {i \in DOMAIN chain : chain[i] = Marker}

GrandParentOf(rec) == Get(rec, "grand_parent", None)

\* every key of every references and referenced_by map is a Dataset key
NoDanglingReferences(d) ==
    \A A \in Keys(d) :
        /\ Keys(References(d, A)) \subseteq Keys(d)
        /\ Keys(ReferencedBy(d, A)) \subseteq Keys(d)

\* every endpoint of every edge of the graph is a Dataset key
NoDanglingEdges(d, G) ==
    G.kind = "DiGraph" => \A e \in G.edges : e[1] \in Keys(d) /\ e[2] \in Keys(d)

\* C5 as stated: in every Dataset the pipeline holds, as merged from the
\* Reflector's records and after calculate_references, every references and
\* referenced_by key is a Dataset key, and so is every graph edge endpoint.
C5_NoDanglingInEveryDataset ==
    loaded => NoDanglingReferences(data) /\ NoDanglingEdges(data, graph)

\* C5 as amended: once calculate_references has run on the Dataset, every
\* references and referenced_by key is a Dataset key; every endpoint of every
\* edge of the hierarchy graph is a Dataset key.
C5_NoDanglingAfterAggregation ==
    /\ loaded /\ calls >= 1 => NoDanglingReferences(data)
    /\ loaded => NoDanglingEdges(data, graph)

C5_Witness ==
    /\ loaded
    /\ calls >= 1
    /\ graph.kind = "DiGraph"
    /\ graph.edges # {}
    /\ ~ NoDanglingReferences(all_class_info)
    /\ \E A \in Keys(data) : References(data, A) # <<>>
    /\ \E A \in Keys(data) :
          /\ Truthy(Get(RecordOf(data, A), "parent", None))
          /\ Get(RecordOf(data, A), "parent", None) \notin Keys(data)

\* C7: a class whose ancestor chain holds the common-base marker anywhere
\* but as the direct parent gets grand_parent = the marker, whatever lies
\* between the marker and the root.
C7_MarkerRule ==
    \A i \in Handled :
        (/\ ClassAt(i).raises = "no"
         /\ \E k \in MarkerPositions(ChainOf(ClassAt(i))) : k # 1)
        => GrandParentOf(RecordAt(i)) = Marker

\* C8: without a marker in the chain, grand_parent is the second-to-last
\* ancestor (the one just below the root); grand_parent never equals parent;
\* with fewer than 3 ancestors grand_parent stays unset.
C8_FallbackRule ==
    \A i \in Handled :
        ClassAt(i).raises = "no" =>
            LET chain == ChainOf(ClassAt(i))
                rec == RecordAt(i)
            IN  /\ (MarkerPositions(chain) = {} /\ Len(chain) >= 3)
                      => GrandParentOf(rec) = chain[Len(chain) - 1]
                /\ "grand_parent" \in DOMAIN rec
                      => rec["grand_parent"] # Get(rec, "parent", None)
                /\ Len(chain) < 3 => "grand_parent" \notin DOMAIN rec

C8_Witness ==
    \E i \in Handled :
        /\ ClassAt(i).raises = "no"
        /\ ChainOf(ClassAt(i)) = <<"Parent", "Mid", "object">>
        /\ GrandParentOf(RecordAt(i)) = "Mid"

\* C9: a class whose introspection raises gets the record {name, error} and
\* nothing else; the loop goes on with the next class, so every class the
\* driver has iterated over has exactly one entry, and the printed Dataset
\* has one entry per class of the batch.
C9_FailureContained ==
    /\ Len(all_class_info) = done
    /\ Keys(all_class_info) = {class_list[i][1] : i \in Handled}
    /\ \A i \in Handled :
          IF ClassAt(i).raises # "no"
          THEN RecordAt(i) = [name |-> ClassAt(i).name, error |-> ClassAt(i).raises]
          ELSE "error" \notin DOMAIN RecordAt(i) /\ AlwaysKept \subseteq DOMAIN RecordAt(i)
    /\ loaded => /\ done = Len(class_list)
                 /\ Keys(data) = {class_list[i][1] : i \in DOMAIN class_list}

C9_Witness ==
    /\ loaded
    /\ Len(class_list) = 3
    /\ ClassAt(1).raises # "no"
    /\ ClassAt(2).raises = "no"
    /\ ClassAt(3).raises # "no"
    /\ DOMAIN RecordAt(1) = {"name", "error"}
    /\ "references" \in DOMAIN RecordAt(2)

(***************************************************************************)
(* The entry points of unreal_class_visualization: parse_unreal_json and   *)
(* the __main__ blocks of parse_json.py and visualize_hierarchy.py.  The   *)
(* input path holds nothing, a directory, a file that cannot be opened, or *)
(* a file whose bytes are no UTF-8, no JSON, or the JSON text of a value.  *)
(***************************************************************************)
FailingFiles ==
    { [kind |-> "missing"], [kind |-> "directory"], [kind |-> "unreadable"],
      [kind |-> "text", decodes |-> FALSE],
      [kind |-> "text", decodes |-> TRUE, wellformed |-> FALSE] }

\* the values json.load returns here: null, and a Dataset ({} included)
JsonValues ==
    {[kind |-> "None"]} \cup {[kind |-> "dict", value |-> d] : d \in VizDatasets}

JsonFiles ==
    {[kind |-> "text", decodes |-> TRUE, wellformed |-> TRUE, json |-> v] :
        v \in JsonValues}

InputFiles == FailingFiles \cup JsonFiles

\* os.path.exists(json_path): true of a directory too
os_path_exists(f) == f.kind # "missing"

\* json_path.is_file()
is_file(f) == f.kind \in {"unreadable", "text"}

\* with open(json_path, 'r', encoding='utf-8') as f: json.load(f)
\* the exception this raises, "no" when it returns
LoadRaises(f) ==
    CASE f.kind = "missing" -> "FileNotFoundError"
      [] f.kind = "directory" -> "IsADirectoryError"
      [] f.kind = "unreadable" -> "PermissionError"
      [] f.kind = "text" /\ ~ f.decodes -> "UnicodeDecodeError"
      [] f.kind = "text" /\ f.decodes /\ ~ f.wellformed -> "JSONDecodeError"
      [] OTHER -> "no"

\* faulty variant of Catches: only the except json.JSONDecodeError clause
CatchesDecodeErrorOnly(exc) == exc = "JSONDecodeError"

\* the except clauses of parse_unreal_json: json.JSONDecodeError, then
\* Exception, which every exception of LoadRaises derives from
Catches(exc) ==
    exc = "JSONDecodeError" \/
    exc \in {"FileNotFoundError", "IsADirectoryError", "PermissionError",
             "UnicodeDecodeError"}

Returned(v) == [raised |-> "no", value |-> v]
Raised(exc) == [raised |-> exc, value |-> [kind |-> "unset"]]

\* the try block of parse_unreal_json, the same in both files
LoadGuarded(f) ==
    LET exc == LoadRaises(f)
    IN  IF exc = "no" THEN Returned(f.json)
        ELSE IF Catches(exc) THEN Returned([kind |-> "None"])
        ELSE Raised(exc)

\* parse_json.py: parse_unreal_json(json_path)
parse_unreal_json(f) ==
    IF ~ os_path_exists(f) THEN Returned([kind |-> "None"]) ELSE LoadGuarded(f)

\* visualize_hierarchy.py: parse_unreal_json(json_path: Path)
parse_unreal_json_path(f) ==
    IF ~ is_file(f) THEN Returned([kind |-> "None"]) ELSE LoadGuarded(f)

\* "if unreal_data:" -- None and {} are falsy
DataTruthy(v) == v.kind = "dict" /\ v.value # <<>>

\* "if hierarchy_graph:" -- None is falsy, a DiGraph is as long as its nodes
GraphTruthy(G) == G.kind = "DiGraph" /\ number_of_nodes(G) > 0

\* unreal_data = parse_unreal_json(...) and the branch on it
MainLoad(outcome, onward) ==
    IF outcome.raised # "no"
    THEN /\ main_escaped' = TRUE
         /\ mpc' = "exit"
         /\ UNCHANGED unreal_data
    ELSE /\ unreal_data' = outcome.value
         /\ mpc' = IF DataTruthy(outcome.value) THEN onward ELSE "exit"
         /\ UNCHANGED main_escaped

\* parse_json.py __main__: parse, else "Failed to parse JSON data."
AggMainLoad ==
    /\ entry = "aggregator"
    /\ mpc = "start"
    /\ MainLoad(parse_unreal_json(input_file), "calculate")
    /\ UNCHANGED <<aggVars, vizVars, loaded, batchVars, entry, input_file, output_json, srvVars>>

\* calculated_data = calculate_references(unreal_data)
AggMainCalculate ==
    /\ entry = "aggregator"
    /\ mpc = "calculate"
    /\ data' = calculate_references(unreal_data.value)
    /\ calls' = calls + 1
    /\ mpc' = "dump"
    /\ UNCHANGED <<vizVars, loaded, batchVars, entry, input_file, unreal_data,
                   output_json, main_escaped, srvVars>>

\* open(output_json_path, 'w') and json.dump return
AggMainDump ==
    /\ entry = "aggregator"
    /\ mpc = "dump"
    /\ output_json' = "written"
    /\ mpc' = "exit"
    /\ UNCHANGED <<aggVars, vizVars, loaded, batchVars, entry, input_file,
                   unreal_data, main_escaped, srvVars>>

\* open or json.dump raises: nothing in __main__ handles it
AggMainDumpFails ==
    /\ entry = "aggregator"
    /\ mpc = "dump"
    /\ output_json' \in {"absent", "partial"}
    /\ main_escaped' = TRUE
    /\ mpc' = "exit"
    /\ UNCHANGED <<aggVars, vizVars, loaded, batchVars, entry, input_file,
                   unreal_data, srvVars>>

\* visualize_hierarchy.py __main__: args.output.parent.mkdir(...) returns
VizMainMkdir ==
    /\ entry = "visualizer"
    /\ mpc = "start"
    /\ mpc' = "load"
    /\ UNCHANGED <<aggVars, vizVars, loaded, batchVars, entry, input_file,
                   unreal_data, output_json, main_escaped, srvVars>>

\* mkdir raises before anything is parsed
VizMainMkdirFails ==
    /\ entry = "visualizer"
    /\ mpc = "start"
    /\ mpc' = "aborted"
    /\ main_escaped' = TRUE
    /\ UNCHANGED <<aggVars, vizVars, loaded, batchVars, entry, input_file,
                   unreal_data, output_json, srvVars>>

\* parse, else "Failed to parse JSON data. Exiting."
VizMainLoad ==
    /\ entry = "visualizer"
    /\ mpc = "load"
    /\ MainLoad(parse_unreal_json_path(input_file), "build")
    /\ UNCHANGED <<aggVars, vizVars, loaded, batchVars, entry, input_file, output_json, srvVars>>

\* hierarchy_graph = build_hierarchy_graph(unreal_data) and the branch on
\* it; visualize_interactive_graph is then VizEnter and what follows it
VizMainBuild ==
    /\ entry = "visualizer"
    /\ mpc = "build"
    /\ graph' = build_hierarchy_graph(unreal_data.value)
    /\ mpc' = IF GraphTruthy(graph') THEN "visualize" ELSE "exit"
    /\ UNCHANGED <<aggVars, vpc, artifact, events, escaped, loaded, batchVars,
                   entry, input_file, unreal_data, output_json, main_escaped, srvVars>>

\* visualize_interactive_graph has returned: "Visualization complete."
VizMainComplete ==
    /\ entry = "visualizer"
    /\ mpc = "visualize"
    /\ vpc = "returned"
    /\ mpc' = "exit"
    /\ UNCHANGED <<aggVars, vizVars, loaded, batchVars, entry, input_file,
                   unreal_data, output_json, main_escaped, srvVars>>

InitMain ==
    /\ entry \in {"aggregator", "visualizer"}
    /\ input_file \in InputFiles
    /\ mpc = "start"
    /\ unreal_data = [kind |-> "unset"]
    /\ output_json = "absent"
    /\ main_escaped = FALSE
    /\ data = <<>>
    /\ calls = 0
    /\ VizIdle
    /\ loaded = FALSE
    /\ class_list = <<>>
    /\ done = 0
    /\ all_class_info = <<>>
    /\ NoServer

NextMain ==
    \/ AggMainLoad
    \/ AggMainCalculate
    \/ AggMainDump
    \/ AggMainDumpFails
    \/ VizMainMkdir
    \/ VizMainMkdirFails
    \/ VizMainLoad
    \/ VizMainBuild
    \/ VizEnter
    \/ VizSave
    \/ VizSaveFails
    \/ VizOpen
    \/ VizOpenFails
    \/ VizMainComplete

SpecMain == InitMain /\ [][NextMain]_vars

\* the input path names no file, or a file whose content is no JSON text
BadInput(f) == f \in FailingFiles

\* parse_unreal_json has been called and is over
ParseOver ==
    \/ entry = "aggregator" /\ mpc # "start"
    \/ entry = "visualizer" /\ mpc \notin {"start", "load", "aborted"}

\* C11: for an input path that does not exist or whose content fails to
\* parse as JSON, parse_unreal_json returns None without raising, and the
\* entry point that called it writes no output file and lets no exception
\* escape.
C11_InputFailureContained ==
    (BadInput(input_file) /\ ParseOver) =>
        /\ unreal_data = [kind |-> "None"]
        /\ mpc = "exit"
        /\ ~ main_escaped
        /\ ~ escaped
        /\ output_json = "absent"
        /\ artifact = "absent"
        /\ events = <<>>

C11_Witness ==
    /\ mpc = "exit"
    /\ unreal_data = [kind |-> "None"]
    /\ \/ entry = "visualizer" /\ input_file = [kind |-> "text", decodes |-> TRUE, wellformed |-> FALSE]
       \/ entry = "aggregator" /\ input_file = [kind |-> "directory"]

(***************************************************************************)
(* What the children claim speaks of.                                      *)
(***************************************************************************)
\* the Dataset classes whose parent is A
ChildrenOf(d, A) ==
    {B \in Keys(d) : Get(RecordOf(d, B), "parent", None) = A}

\* the names the children field of A's record lists
ListedChildren(d, A) ==
    LET c == Get(RecordOf(d, A), "children", <<>>)
    IN  {c[i] : i \in DOMAIN c}

\* C12: once the Reflector's records are merged into the Dataset and the
\* Aggregator has processed it, the children field of every record A lists
\* the Dataset classes whose parent is A; the record of a single reflection
\* has children empty.
C12_ChildrenPopulated ==
    /\ \A i \in Handled : Get(RecordAt(i), "children", <<>>) = <<>>
    /\ (loaded /\ calls >= 1) =>
          \A A \in Keys(data) : ListedChildren(data, A) = ChildrenOf(data, A)

(***************************************************************************)
(* What the member classification claim speaks of.                         *)
(***************************************************************************)
MemberLists == {"properties", "methods", "class_methods", "static_methods"}

\* how often a name occurs in one member list of a record
OccurrencesIn(rec, list, name) ==
    LET l == Get(rec, list, <<>>)
    IN  Cardinality({i \in DOMAIN l : l[i] = name})

\* the member lists of a record that hold a name
ListsHolding(rec, name) ==
    {list \in MemberLists : OccurrencesIn(rec, list, name) > 0}

\* declared on the class itself, and public or the constructor
DirectMember(cls, attr) ==
    /\ attr.defining_class = cls.name
    /\ attr.name \notin PrivateNames \/ attr.name = "__init__"

\* the member list of a kind of inspect.classify_class_attrs, if any
ListOfKind(kind) ==
    CASE kind = "property" -> {"properties"}
      [] kind = "method" -> {"methods"}
      [] kind = "class method" -> {"class_methods"}
      [] kind = "static method" -> {"static_methods"}
      [] OTHER -> {}

\* C13: every member declared directly on the class whose name is not
\* private, plus the constructor, appears in exactly one of properties,
\* methods, class_methods, static_methods; a member an ancestor owns
\* appears in none.
C13_EveryMemberInOneList ==
    \A i \in Handled :
        ClassAt(i).raises = "no" =>
            \A k \in DOMAIN ClassAt(i).attrs :
                LET attr == ClassAt(i).attrs[k]
                    held == ListsHolding(RecordAt(i), attr.name)
                IN  /\ DirectMember(ClassAt(i), attr) => Cardinality(held) = 1
                    /\ attr.defining_class # ClassAt(i).name => held = {}

\* C13 as amended: a directly declared member that is public or the
\* constructor appears once, in the list of its kind, when its kind is
\* property, method, class method or static method, and in no list when it
\* is of another kind (a data attribute); private members and members an
\* ancestor owns appear in none.
C13_CallableMembersInOneList ==
    \A i \in Handled :
        ClassAt(i).raises = "no" =>
            \A k \in DOMAIN ClassAt(i).attrs :
                LET attr == ClassAt(i).attrs[k]
                    rec == RecordAt(i)
                    held == ListsHolding(rec, attr.name)
                IN  IF DirectMember(ClassAt(i), attr)
                    THEN /\ held = ListOfKind(attr.kind)
                         /\ \A list \in held : OccurrencesIn(rec, list, attr.name) = 1
                    ELSE held = {}

C13_Witness ==
    \E i, j \in Handled :
        /\ ClassAt(i).name = "Box" /\ ClassAt(i).raises = "no"
        /\ ListsHolding(RecordAt(i), "min") = {"properties"}
        /\ ListsHolding(RecordAt(i), "build") = {"class_methods"}
        /\ ListsHolding(RecordAt(i), "unit") = {"static_methods"}
        /\ ListsHolding(RecordAt(i), "__repr__") = {}
        /\ ClassAt(j).name = "Vector" /\ ClassAt(j).raises = "no"
        /\ ListsHolding(RecordAt(j), "dot") = {"methods"}
        /\ ListsHolding(RecordAt(j), "ZERO") = {}
        /\ ListsHolding(RecordAt(j), "copy") = {}

(***************************************************************************)
(* What the Aggregator frame claim speaks of.                              *)
(***************************************************************************)
RewrittenFields == {"references", "referenced_by"}

\* the fields of a record the Aggregator is not to touch
OtherFields(rec) == DOMAIN rec \ RewrittenFields

\* Dataset e has the keys of Dataset d, in d's order, and each record of e
\* has the fields of d's record, references and referenced_by aside, with
\* the values they have in d
SameButRefMaps(d, e) ==
    /\ Len(e) = Len(d)
    /\ \A i \in DOMAIN d :
          /\ e[i][1] = d[i][1]
          /\ OtherFields(e[i][2]) = OtherFields(d[i][2])
          /\ \A f \in OtherFields(d[i][2]) : e[i][2][f] = d[i][2][f]

\* C14: calculate_references changes nothing but the references and
\* referenced_by fields: the Dataset keeps its keys, and every other field
\* of every record has the same value after the call as before.
C14_AggregatorFrame ==
    [][calls' = calls + 1 => SameButRefMaps(data, data')]_vars

C14_Witness ==
    /\ calls = 1
    /\ \E A \in Keys(data) :
          LET rec == RecordOf(data, A)
          IN  /\ {"name", "generation", "children", "parent", "editor_properties"}
                    \subseteq DOMAIN rec
              /\ Truthy(rec["parent"])
              /\ rec["editor_properties"] # <<>>
              /\ rec["references"] # StaleReferences
              /\ rec["referenced_by"] # StaleReferencedBy
              /\ rec["referenced_by"] # <<>>

(***************************************************************************)
(* server.py: the MCP server.  A RemoteExecution session is an object of   *)
(* remote_execution.py; the server sees of it only what its calls do: each *)
(* call returns or raises, and remote_nodes is empty or not at each read.  *)
(* A session records whether start() has returned on it, whether stop()    *)
(* has been called on it, and the state of its command channel.            *)
(*                                                                         *)
(* The handlers are asyncio tasks of one event loop: a handler runs alone  *)
(* from one await to the next.  loop_owner names the handler that is       *)
(* between two awaits; 0 says every handler is suspended, done or not yet  *)
(* started, and only then may another task or main() take a step.          *)
(***************************************************************************)
CallOutcomes == {"ok", "raise"}

\* what reading session.remote_nodes gives
ReadOutcomes == {"raise", "empty", "nodes"}

\* RemoteExecution(config): a new session object
NewSession(owner) ==
    [owner |-> owner, started |-> FALSE, stopped |-> FALSE, channel |-> "closed"]

\* session.start()
Start(ss, id, outcome) ==
    IF outcome = "ok" THEN [ss EXCEPT ![id].started = TRUE] ELSE ss

\* session.stop(): when it returns the command channel is closed too
Stop(ss, id, outcome) ==
    [ss EXCEPT ![id].stopped = TRUE,
               ![id].channel = IF outcome = "ok" THEN "closed" ELSE @]

\* session.open_command_connection(node_id): a failed open may leave the
\* channel half open
OpenChannel(ss, id, outcome, left) ==
    [ss EXCEPT ![id].channel = IF outcome = "ok" THEN "open" ELSE left]

\* session.close_command_connection()
CloseChannel(ss, id, outcome) ==
    [ss EXCEPT ![id].channel = IF outcome = "ok" THEN "closed" ELSE @]

\* faulty variant of get_unreal_connection: the invalid session is dropped
\* without stop()
get_unreal_connection_no_stop(ss, conn, read, stop, start) ==
    IF conn # 0 /\ read # "raise"
    THEN [sessions |-> ss, conn |-> conn, raised |-> FALSE]
    ELSE LET ss2 == Append(ss, NewSession("global"))
         IN  [sessions |-> Start(ss2, Len(ss2), start), conn |-> Len(ss2),
              raised |-> start = "raise"]

\* get_unreal_connection(): the sessions and the global after the call, and
\* whether the call raised (start() is the one call no handler guards);
\* read, stop and start are the outcomes of the calls it makes
get_unreal_connection(ss, conn, read, stop, start) ==
    IF conn # 0 /\ read # "raise"
    THEN [sessions |-> ss, conn |-> conn, raised |-> FALSE]
    ELSE LET ss1 == IF conn # 0 THEN Stop(ss, conn, stop) ELSE ss
             ss2 == Append(ss1, NewSession("global"))
         IN  [sessions |-> Start(ss2, Len(ss2), start), conn |-> Len(ss2),
              raised |-> start = "raise"]

\* main(): stdio_server() or server.run fails before the lifespan is entered
MainStartFails ==
    /\ spc = "start"
    /\ spc' = "finally"
    /\ UNCHANGED <<aggVars, vizVars, loaded, batchVars, mainVars, connVars,
                   instVars, handlers, loop_owner>>

\* server_lifespan up to the yield: get_unreal_connection() under try/except
LifespanEnter ==
    /\ spc = "start"
    /\ \E read \in ReadOutcomes, stop, start \in CallOutcomes :
          LET r == get_unreal_connection(sessions, unreal_connection, read, stop, start)
          IN  /\ sessions' = r.sessions
              /\ unreal_connection' = r.conn
    /\ spc' = "serving"
    /\ UNCHANGED <<aggVars, vizVars, loaded, batchVars, mainVars, instVars,
                   handlers, loop_owner>>

\* a tool call arrives: the server's message loop, a task of the same
\* event loop, starts handle_call_tool as a task of its own
Request ==
    /\ spc = "serving"
    /\ loop_owner = 0
    /\ \E h \in Handlers, tool \in {"execute-python", "connect-unreal"},
          has_code \in BOOLEAN :
          /\ handlers[h].tool = "none"
          /\ \A g \in Handlers : g < h => handlers[g].tool # "none"
          /\ tool = "connect-unreal" => ~ has_code
          /\ handlers' = [handlers EXCEPT ![h] =
                 [NoRequest EXCEPT !.tool = tool, !.has_code = has_code,
                                   !.pc = "start"]]
    /\ UNCHANGED <<aggVars, vizVars, loaded, batchVars, mainVars, connVars,
                   instVars, loop_owner, spc>>

\* a handler that has not returned
Pending(h) == handlers[h].tool # "none" /\ handlers[h].pc \notin {"done", "cancelled"}

\* server.run ends, because the input ended or an error came up: the
\* handlers still suspended at an await are cancelled there (CancelledError
\* is no Exception, so no handler of theirs catches it)
ServeEnds ==
    /\ spc = "serving"
    /\ loop_owner = 0
    /\ handlers' = [h \in Handlers |->
           IF Pending(h)
           THEN [handlers[h] EXCEPT !.pc = "cancelled", !.has_code = FALSE]
           ELSE handlers[h]]
    /\ spc' = "lifespan_exit"
    /\ UNCHANGED <<aggVars, vizVars, loaded, batchVars, mainVars, connVars,
                   instVars, loop_owner>>

\* server_lifespan's finally: the global _node_monitor_task is never
\* assigned, so only the global session is dealt with; when stop() raises
\* the global keeps the session
LifespanExit ==
    /\ spc = "lifespan_exit"
    /\ loop_owner = 0
    /\ IF unreal_connection # 0
       THEN \E stop \in CallOutcomes :
               /\ sessions' = Stop(sessions, unreal_connection, stop)
               /\ unreal_connection' = IF stop = "ok" THEN 0 ELSE unreal_connection
       ELSE UNCHANGED connVars
    /\ spc' = "finally"
    /\ UNCHANGED <<aggVars, vizVars, loaded, batchVars, mainVars, instVars,
                   handlers, loop_owner>>

\* McpUnrealServer.close(), were its coroutine run: cancel the monitor task
\* and stop the instance's session
close ==
    /\ node_monitor_task' =
          IF node_monitor_task = "running" THEN "cancelled" ELSE node_monitor_task
    /\ IF remote_execution # 0
       THEN \E stop \in CallOutcomes :
               sessions' = Stop(sessions, remote_execution, stop)
       ELSE UNCHANGED sessions
    /\ UNCHANGED <<unreal_connection, remote_execution, connected_nodes>>

\* main()'s finally: unreal_server.close() is called without await, which
\* makes a coroutine object and runs nothing of close
MainFinally ==
    /\ spc = "finally"
    /\ spc' = "exited"
    /\ UNCHANGED <<aggVars, vizVars, loaded, batchVars, mainVars, connVars,
                   instVars, handlers, loop_owner>>

(***************************************************************************)
(* _handle_execute_python, one action per stretch of it.  The replies:     *)
(* "connect_failed" (line 189), "cannot_connect" (187), "no_code" (193),   *)
(* "no_nodes" (202), "failed" (213, 228), "result" (218).                  *)
(***************************************************************************)
\* the handler returns a reply; its arguments and locals are gone with it
Return(h, reply) ==
    [handlers[h] EXCEPT !.pc = "done", !.reply = reply,
                        !.has_code = FALSE, !.success = FALSE]

\* the handler goes on to position pc
Goto(h, pc) == [handlers[h] EXCEPT !.pc = pc]

\* handler h is the task the loop resumes, or the task it is running
Resumes(h, pc) == loop_owner = 0 /\ handlers[h].pc = pc
Runs(h, pc) == loop_owner = h /\ handlers[h].pc = pc

\* lines 180-184: the first test of the global session, and
\* get_unreal_connection() followed by await asyncio.sleep(1)
ExecEnsure ==
    /\ spc = "serving"
    /\ \E h \in Handlers :
          /\ handlers[h].tool = "execute-python"
          /\ Resumes(h, "start")
          /\ \E read, read2 \in ReadOutcomes, stop, start \in CallOutcomes :
                IF unreal_connection # 0 /\ read = "raise"
                THEN /\ handlers' = [handlers EXCEPT ![h] = Return(h, "connect_failed")]
                     /\ loop_owner' = 0
                     /\ UNCHANGED connVars
                ELSE IF unreal_connection = 0 \/ read = "empty"
                THEN LET r == get_unreal_connection(sessions, unreal_connection,
                                                    read2, stop, start)
                     IN  /\ sessions' = r.sessions
                         /\ unreal_connection' = r.conn
                         /\ handlers' = [handlers EXCEPT ![h] =
                                IF r.raised THEN Return(h, "connect_failed")
                                ELSE Goto(h, "sleeping")]
                         /\ loop_owner' = 0
                ELSE /\ handlers' = [handlers EXCEPT ![h] = Goto(h, "check")]
                     /\ loop_owner' = h
                     /\ UNCHANGED connVars
    /\ UNCHANGED <<aggVars, vizVars, loaded, batchVars, mainVars, instVars, spc>>

\* lines 186-195: the second test of the global session, and the code argument
ExecCheck ==
    /\ spc = "serving"
    /\ \E h \in Handlers :
          /\ handlers[h].tool = "execute-python"
          /\ Resumes(h, "sleeping") \/ Runs(h, "check")
          /\ \E read \in ReadOutcomes :
                IF unreal_connection # 0 /\ read = "raise"
                THEN /\ handlers' = [handlers EXCEPT ![h] = Return(h, "connect_failed")]
                     /\ loop_owner' = 0
                ELSE IF unreal_connection = 0 \/ read = "empty"
                THEN /\ handlers' = [handlers EXCEPT ![h] = Return(h, "cannot_connect")]
                     /\ loop_owner' = 0
                ELSE IF ~ handlers[h].has_code
                THEN /\ handlers' = [handlers EXCEPT ![h] = Return(h, "no_code")]
                     /\ loop_owner' = 0
                ELSE /\ handlers' = [handlers EXCEPT ![h] = Goto(h, "nodes")]
                     /\ loop_owner' = h
    /\ UNCHANGED <<aggVars, vizVars, loaded, batchVars, mainVars, connVars,
                   instVars, spc>>

\* lines 198-204: the node list is read once more, inside the try
ExecNodes ==
    /\ \E h \in Handlers :
          /\ Runs(h, "nodes")
          /\ \E read \in ReadOutcomes :
                IF read = "raise"
                THEN /\ handlers' = [handlers EXCEPT ![h] = Goto(h, "except")]
                     /\ loop_owner' = h
                ELSE IF read = "empty"
                THEN /\ handlers' = [handlers EXCEPT ![h] = Return(h, "no_nodes")]
                     /\ loop_owner' = 0
                ELSE /\ handlers' = [handlers EXCEPT ![h] = Goto(h, "open")]
                     /\ loop_owner' = h
    /\ UNCHANGED <<aggVars, vizVars, loaded, batchVars, mainVars, connVars,
                   instVars, spc>>

\* line 205: _unreal_connection.open_command_connection(node_id)
ExecOpen ==
    /\ \E h \in Handlers :
          /\ Runs(h, "open")
          /\ \E outcome \in CallOutcomes, left \in {"closed", "open"} :
                /\ sessions' = OpenChannel(sessions, unreal_connection, outcome, left)
                /\ handlers' = [handlers EXCEPT ![h] =
                       [@ EXCEPT !.opened = TRUE,
                                 !.pc = IF outcome = "ok" THEN "run" ELSE "except"]]
    /\ UNCHANGED <<aggVars, vizVars, loaded, batchVars, mainVars,
                   unreal_connection, instVars, loop_owner, spc>>

\* lines 207-209: _unreal_connection.run_command(...)
ExecRun ==
    /\ \E h \in Handlers :
          /\ Runs(h, "run")
          /\ \E outcome \in CallOutcomes, success \in BOOLEAN :
                handlers' = [handlers EXCEPT ![h] =
                    IF outcome = "ok"
                    THEN [@ EXCEPT !.success = success, !.pc = "close"]
                    ELSE [@ EXCEPT !.pc = "except"]]
    /\ UNCHANGED <<aggVars, vizVars, loaded, batchVars, mainVars, connVars,
                   instVars, loop_owner, spc>>

\* lines 210-221: close_command_connection(), then the reply
ExecClose ==
    /\ \E h \in Handlers :
          /\ Runs(h, "close")
          /\ \E outcome \in CallOutcomes :
                /\ sessions' = CloseChannel(sessions, unreal_connection, outcome)
                /\ IF outcome = "ok"
                   THEN /\ handlers' = [handlers EXCEPT ![h] =
                               [Return(h, IF handlers[h].success THEN "result"
                                          ELSE "failed") EXCEPT !.closed = TRUE]]
                        /\ loop_owner' = 0
                   ELSE /\ handlers' = [handlers EXCEPT ![h] =
                               [Goto(h, "except") EXCEPT !.closed = TRUE]]
                        /\ loop_owner' = h
    /\ UNCHANGED <<aggVars, vizVars, loaded, batchVars, mainVars,
                   unreal_connection, instVars, spc>>

\* faulty variant of ExecExcept: the handler only reports the failure
ExecExceptNoClose ==
    /\ \E h \in Handlers :
          /\ Runs(h, "except")
          /\ handlers' = [handlers EXCEPT ![h] = Return(h, "failed")]
    /\ loop_owner' = 0
    /\ UNCHANGED <<aggVars, vizVars, loaded, batchVars, mainVars, connVars,
                   instVars, spc>>

\* lines 222-231: the except branch closes the channel, whatever that
\* close does, and reports the failure
ExecExcept ==
    /\ \E h \in Handlers :
          /\ Runs(h, "except")
          /\ IF unreal_connection # 0
             THEN \E outcome \in CallOutcomes :
                     /\ sessions' = CloseChannel(sessions, unreal_connection, outcome)
                     /\ handlers' = [handlers EXCEPT ![h] =
                            [Return(h, "failed") EXCEPT !.closed = TRUE]]
             ELSE /\ handlers' = [handlers EXCEPT ![h] = Return(h, "failed")]
                  /\ UNCHANGED sessions
    /\ loop_owner' = 0
    /\ UNCHANGED <<aggVars, vizVars, loaded, batchVars, mainVars,
                   unreal_connection, instVars, spc>>

(***************************************************************************)
(* _handle_connect_unreal and the monitor task it starts.  The replies:    *)
(* "connect_failed" (line 170), "no_nodes" (151), "connected" (164).       *)
(***************************************************************************)
\* lines 131-146: stop the instance's session if there is one, make and
\* start a new one, then await asyncio.sleep(2)
ConnStart ==
    /\ spc = "serving"
    /\ \E h \in Handlers :
          /\ handlers[h].tool = "connect-unreal"
          /\ Resumes(h, "start")
          /\ \E stop, start \in CallOutcomes :
                IF remote_execution # 0 /\ stop = "raise"
                THEN /\ sessions' = Stop(sessions, remote_execution, stop)
                     /\ handlers' = [handlers EXCEPT ![h] = Return(h, "connect_failed")]
                     /\ UNCHANGED remote_execution
                ELSE LET ss1 == IF remote_execution # 0
                                THEN Stop(sessions, remote_execution, stop)
                                ELSE sessions
                         ss2 == Append(ss1, NewSession("instance"))
                     IN  /\ sessions' = Start(ss2, Len(ss2), start)
                         /\ remote_execution' = Len(ss2)
                         /\ handlers' = [handlers EXCEPT ![h] =
                                IF start = "raise" THEN Return(h, "connect_failed")
                                ELSE Goto(h, "sleeping")]
    /\ UNCHANGED <<aggVars, vizVars, loaded, batchVars, mainVars,
                   unreal_connection, node_monitor_task, connected_nodes,
                   loop_owner, spc>>

\* lines 147-155: read the nodes, update connected_nodes, then await
\* send_resource_list_changed()
ConnNodes ==
    /\ spc = "serving"
    /\ \E h \in Handlers :
          /\ handlers[h].tool = "connect-unreal"
          /\ Resumes(h, "sleeping")
          /\ \E read \in ReadOutcomes :
                IF read = "raise"
                THEN /\ handlers' = [handlers EXCEPT ![h] = Return(h, "connect_failed")]
                     /\ UNCHANGED connected_nodes
                ELSE IF read = "empty"
                THEN /\ handlers' = [handlers EXCEPT ![h] = Return(h, "no_nodes")]
                     /\ UNCHANGED connected_nodes
                ELSE /\ handlers' = [handlers EXCEPT ![h] = Goto(h, "notifying")]
                     /\ connected_nodes' = "nodes"
    /\ UNCHANGED <<aggVars, vizVars, loaded, batchVars, mainVars, connVars,
                   remote_execution, node_monitor_task, loop_owner, spc>>

\* lines 155-167: the notification is over; cancel the monitor task there
\* is and start a new one
ConnMonitor ==
    /\ spc = "serving"
    /\ \E h \in Handlers :
          /\ handlers[h].tool = "connect-unreal"
          /\ Resumes(h, "notifying")
          /\ \E sent \in CallOutcomes :
                IF sent = "raise"
                THEN /\ handlers' = [handlers EXCEPT ![h] = Return(h, "connect_failed")]
                     /\ UNCHANGED node_monitor_task
                ELSE /\ handlers' = [handlers EXCEPT ![h] = Return(h, "connected")]
                     /\ node_monitor_task' = "running"
    /\ UNCHANGED <<aggVars, vizVars, loaded, batchVars, mainVars, connVars,
                   remote_execution, connected_nodes, loop_owner, spc>>

\* _monitor_nodes: one turn of its loop, after its sleep.  A failed read or
\* notification is logged and the loop goes on.
MonitorNodes ==
    /\ spc \in {"serving", "lifespan_exit", "finally"}
    /\ loop_owner = 0
    /\ node_monitor_task = "running"
    /\ IF remote_execution = 0
       THEN /\ node_monitor_task' = "finished"
            /\ UNCHANGED connected_nodes
       ELSE /\ \E read \in ReadOutcomes :
                  connected_nodes' = IF read = "raise" THEN connected_nodes ELSE read
            /\ UNCHANGED node_monitor_task
    /\ UNCHANGED <<aggVars, vizVars, loaded, batchVars, mainVars, connVars,
                   remote_execution, handlers, loop_owner, spc>>

(***************************************************************************)
(* Server specification: main() from its start to its exit, with up to    *)
(* MaxRequests tool calls handled in between.                              *)
(***************************************************************************)
InitServer ==
    /\ sessions = <<>>
    /\ unreal_connection = 0
    /\ remote_execution = 0
    /\ node_monitor_task = "None"
    /\ connected_nodes = "empty"
    /\ handlers = [h \in Handlers |-> NoRequest]
    /\ loop_owner = 0
    /\ spc = "start"
    /\ data = <<>>
    /\ calls = 0
    /\ VizIdle
    /\ NoBatch
    /\ NoMain

NextServer ==
    \/ MainStartFails
    \/ LifespanEnter
    \/ Request
    \/ ExecEnsure
    \/ ExecCheck
    \/ ExecNodes
    \/ ExecOpen
    \/ ExecRun
    \/ ExecClose
    \/ ExecExcept
    \/ ConnStart
    \/ ConnNodes
    \/ ConnMonitor
    \/ MonitorNodes
    \/ ServeEnds
    \/ LifespanExit
    \/ MainFinally

SpecServer == InitServer /\ [][NextServer]_vars

(***************************************************************************)
(* What the server claims speak of.                                        *)
(***************************************************************************)
\* handler h has called open_command_connection and has not returned yet
InChannelSegment(h) ==
    handlers[h].opened /\ handlers[h].pc \in {"run", "close", "except"}

\* a handler that called open_command_connection has called
\* close_command_connection by the time it returns
ClosedOnReturn ==
    \A h \in Handlers :
        (handlers[h].opened /\ handlers[h].pc \in {"done", "cancelled"})
            => handlers[h].closed

\* between its open and its return a handler is the one the loop runs
SegmentOwnsLoop ==
    \A h \in Handlers : InChannelSegment(h) => loop_owner = h

\* while a handler is between its open and its return, no other handler
\* takes a step and the server does not move on
SegmentUninterrupted ==
    \A h \in Handlers :
        InChannelSegment(h) =>
            /\ \A g \in Handlers \ {h} : handlers'[g] = handlers[g]
            /\ spc' = spc
            /\ unreal_connection' = unreal_connection

\* C15: on every path of _handle_execute_python on which
\* open_command_connection was called (the run succeeds, returns
\* success == false, or open or run raises), close_command_connection is
\* called before the handler returns; there is no await between the open
\* and the close, so no other handler's step falls inside that segment.
C15_ChannelClosedUninterrupted ==
    [](ClosedOnReturn /\ SegmentOwnsLoop) /\ [][SegmentUninterrupted]_vars

C15_Witness ==
    \E g, h \in Handlers :
        /\ g # h
        /\ handlers[g].pc = "done" /\ handlers[g].opened /\ handlers[g].closed
        /\ handlers[g].reply = "result"
        /\ handlers[h].pc = "done" /\ handlers[h].opened /\ handlers[h].closed
        /\ handlers[h].reply = "failed"

\* every session start() returned on has had stop() called on it
EveryStartedSessionStopped ==
    \A id \in DOMAIN sessions : sessions[id].started => sessions[id].stopped

\* C16: after main() has exited, normally or by an error, the instance's
\* node monitor task has been cancelled and every RemoteExecution session
\* that was started (the global one, and the one connect-unreal started in
\* self.remote_execution) has had stop() called on it.
C16_ShutdownReleasesEverySession ==
    spc = "exited" =>
        /\ node_monitor_task # "running"
        /\ EveryStartedSessionStopped

\* the global sessions that are started and not stopped
LiveGlobalSessions ==
    {id \in DOMAIN sessions :
        /\ sessions[id].owner = "global"
        /\ sessions[id].started
        /\ ~ sessions[id].stopped}

\* get_unreal_connection on the present state, for given call outcomes
GetNow(read, stop, start) ==
    get_unreal_connection(sessions, unreal_connection, read, stop, start)

\* with a session in the global whose remote_nodes can be read, the call
\* returns that session and changes nothing
KeepsReadableSession ==
    unreal_connection # 0 =>
        \A read \in {"empty", "nodes"}, stop, start \in CallOutcomes :
            GetNow(read, stop, start) =
                [sessions |-> sessions, conn |-> unreal_connection, raised |-> FALSE]

\* the call makes a new session only when the global is None or after
\* stop() on the session it held
NewSessionOnlyAfterStop ==
    \A read \in ReadOutcomes, stop, start \in CallOutcomes :
        LET r == GetNow(read, stop, start)
        IN  r.sessions # sessions =>
                /\ Len(r.sessions) = Len(sessions) + 1
                /\ r.conn = Len(r.sessions)
                /\ unreal_connection # 0 =>
                      /\ read = "raise"
                      /\ r.sessions[unreal_connection].stopped

\* C17: across start-up, get_unreal_connection calls, execute-python calls
\* and shutdown, at most one global session is started and not yet stopped,
\* and it is the one the global holds; get_unreal_connection returns the
\* existing session unchanged whenever reading its remote_nodes does not
\* raise, also when the node list is empty, and starts a new session only
\* when there is none or after calling stop() on the invalid one.
C17_SingleGlobalSession ==
    /\ Cardinality(LiveGlobalSessions) <= 1
    /\ LiveGlobalSessions \subseteq {unreal_connection}
    /\ KeepsReadableSession
    /\ NewSessionOnlyAfterStop

C17_Witness ==
    /\ spc = "serving"
    /\ \E old, new \in DOMAIN sessions :
          /\ old < new
          /\ sessions[old].owner = "global" /\ sessions[new].owner = "global"
          /\ sessions[old].started /\ sessions[old].stopped
          /\ sessions[new].started /\ ~ sessions[new].stopped
          /\ unreal_connection = new
    /\ \E h \in Handlers :
          handlers[h].tool = "execute-python" /\ handlers[h].reply = "result"

====
